---- MODULE Spec2Model ----
(***************************************************************************)
(* Model of app.py (Cursuri Valutare BNM): get_exchange_rate, parse_xml,   *)
(* get_historical_data and the pivoted table built from its result.        *)
(*                                                                         *)
(* Numbers.  A Value text that float() accepts is modelled by the integer  *)
(* it denotes in hundredths (19.50 is 1950); the quotient value / nominal  *)
(* is an exact fraction kept in lowest terms with a positive denominator,  *)
(* so two quotients are equal exactly when the fractions are.  Rounding of *)
(* binary floating point is not modelled.                                  *)
(* Dates.  A calendar date is its day number counted from 01.01.1970; a    *)
(* datetime is [day, tod] with tod the time of day in abstract ticks.      *)
(* Left out: the st.cache_data wrappers (each call modelled here is one    *)
(* that runs the function body), the progress bar, the metrics and charts, *)
(* elements present with empty text, and the float values nan and inf.     *)
(***************************************************************************)
EXTENDS Integers, Sequences, FiniteSets

(***************************************************************************)
(* Bounds of the model.                                                    *)
(***************************************************************************)
MaxDays == 3          \* largest days argument tried
MaxTod == 1           \* last tick of a day
MaxClockDays == 1     \* days the clock may move past StartDay
MaxEntries == 2       \* entries of a document given to parse_xml directly
StartDay == 19723     \* the clock starts on 01.01.2024

(***************************************************************************)
(* Calendar: datetime - timedelta(days=i) and strftime("%d.%m.%Y").        *)
(***************************************************************************)
Civil(z0) ==
    LET z   == z0 + 719468
        era == z \div 146097
        doe == z - era * 146097
        yoe == (doe - doe \div 1460 + doe \div 36524 - doe \div 146096) \div 365
        doy == doe - (365 * yoe + yoe \div 4 - yoe \div 100)
        mp  == (5 * doy + 2) \div 153
        d   == doy - (153 * mp + 2) \div 5 + 1
        m   == IF mp < 10 THEN mp + 3 ELSE mp - 9
        y   == yoe + era * 400 + (IF m <= 2 THEN 1 ELSE 0)
    IN  [y |-> y, m |-> m, d |-> d]

\* date - timedelta(days=i): the calendar day moves, the time of day stays
MinusDays(date, i) == [day |-> date.day - i, tod |-> date.tod]

\* character codes of the digits and of "."
Digit(n) == 48 + n
Dot == 46

\* strftime("%d.%m.%Y"): zero-padded day and month, four-digit year
strftime(day) ==
    LET c == Civil(day)
    IN  << Digit(c.d \div 10), Digit(c.d % 10), Dot,
           Digit(c.m \div 10), Digit(c.m % 10), Dot,
           Digit(c.y \div 1000), Digit((c.y \div 100) % 10),
           Digit((c.y \div 10) % 10), Digit(c.y % 10) >>

\* Python's str comparison: by code point, left to right (equal lengths here)
RECURSIVE StrLess(_, _)
StrLess(s, t) ==
    IF s = <<>> \/ t = <<>> THEN s = <<>> /\ t # <<>>
    ELSE IF Head(s) # Head(t) THEN Head(s) < Head(t)
    ELSE StrLess(Tail(s), Tail(t))

(***************************************************************************)
(* Documents of the remote source.                                         *)
(***************************************************************************)
Missing == [t |-> "missing"]          \* the child element is absent
Bad     == [t |-> "bad"]              \* text that float()/int() rejects
Num(n)  == [t |-> "num", n |-> n]     \* text that float()/int() accepts
NoElem  == "<none>"                   \* find() returned None (CharCode, Name)

Valute(code, name, value, nominal) ==
    [CharCode |-> code, Name |-> name, Value |-> value, Nominal |-> nominal]

\* a body that ET.fromstring rejects, the empty body, and a parsed tree
Garbage    == [kind |-> "garbage", valutes |-> <<>>]
EmptyBody  == [kind |-> "empty", valutes |-> <<>>]
Xml(vs)    == [kind |-> "xml", valutes |-> vs]

(***************************************************************************)
(* Fractions in lowest terms.                                              *)
(***************************************************************************)
Abs(n) == IF n < 0 THEN -n ELSE n

RECURSIVE Gcd(_, _)
Gcd(a, b) == IF b = 0 THEN a ELSE Gcd(b, a % b)

\* variant: the value is stored as it is, not divided
DivMutant(value, nominal) ==
    LET g == Gcd(Abs(value), 1)
    IN  [num |-> value \div g, den |-> 1]

\* value / nominal for nominal # 0
Div(value, nominal) ==
    LET g == Gcd(Abs(value), Abs(nominal))
        s == IF nominal < 0 THEN -1 ELSE 1
    IN  [num |-> s * (value \div g), den |-> s * (nominal \div g)]

(***************************************************************************)
(* parse_xml.  The rates dictionary is the sequence of its items in        *)
(* insertion order: assigning to a key already present replaces the value  *)
(* and keeps the key's place.                                              *)
(***************************************************************************)
Codes(rates) == { rates[k].code : k \in DOMAIN rates }

\* variant: a code already present keeps its first entry
PutMutant(rates, info) ==
    IF info.code \in Codes(rates) THEN rates ELSE Append(rates, info)

\* rates[code] = info
Put(rates, info) ==
    IF info.code \in Codes(rates)
    THEN [k \in DOMAIN rates |->
            IF rates[k].code = info.code THEN info ELSE rates[k]]
    ELSE Append(rates, info)

\* variant: a value that is not positive is rejected as well
RaisesMutant(valute) ==
    \/ valute.CharCode = NoElem
    \/ valute.Name = NoElem
    \/ valute.Value.t # "num"
    \/ valute.Nominal.t # "num"
    \/ valute.Nominal.n = 0
    \/ valute.Value.n <= 0

\* one pass of the loop body raises: find() gave None, float()/int() rejected
\* the text, or the division is by zero
Raises(valute) ==
    \/ valute.CharCode = NoElem
    \/ valute.Name = NoElem
    \/ valute.Value.t # "num"
    \/ valute.Nominal.t # "num"
    \/ valute.Nominal.n = 0

Info(valute) ==
    [code    |-> valute.CharCode,
     name    |-> valute.Name,
     value   |-> Div(valute.Value.n, valute.Nominal.n),
     nominal |-> valute.Nominal.n]

\* the for loop inside try: an exception leaves the loop, `except: pass`
\* swallows it, and `return rates` returns what was stored so far
RECURSIVE ParseLoop(_, _)
ParseLoop(valutes, rates) ==
    IF valutes = <<>> THEN rates
    ELSE IF Raises(Head(valutes)) THEN rates
    ELSE ParseLoop(Tail(valutes), Put(rates, Info(Head(valutes))))

parse_xml(xml_content) ==
    IF xml_content.kind # "xml" THEN <<>>     \* ET.fromstring raised
    ELSE ParseLoop(xml_content.valutes, <<>>)

(***************************************************************************)
(* get_exchange_rate.  The outcome of requests.get is an exception         *)
(* (timeout, connection failure) or a response with a status and a body.   *)
(***************************************************************************)
None == [kind |-> "None", valutes |-> <<>>]

Timeout  == [kind |-> "timeout", status |-> 0, content |-> None]
ConnFail == [kind |-> "connection", status |-> 0, content |-> None]
Response(status, content) ==
    [kind |-> "response", status |-> status, content |-> content]

\* variant: the status is not looked at
get_exchange_rate_Mutant(outcome) ==
    IF outcome.kind = "response" THEN outcome.content ELSE None

get_exchange_rate(outcome) ==
    IF outcome.kind = "response" /\ outcome.status = 200
    THEN outcome.content
    ELSE None

\* `if xml_content:` - None and the empty body are false
Truthy(xml_content) == xml_content.kind \notin {"None", "empty"}

(***************************************************************************)
(* What the remote source may answer.                                      *)
(***************************************************************************)
EUR      == Valute("EUR", "Euro", Num(1950), Num(1))
USD      == Valute("USD", "US Dollar", Num(195000), Num(100))
EUR2     == Valute("EUR", "Euro", Num(2000), Num(10))
USDZero  == Valute("USD", "US Dollar", Num(0), Num(1))
EURNeg   == Valute("EUR", "Euro", Num(-500), Num(1))
NoCode   == Valute(NoElem, "Euro", Num(1950), Num(1))
NoName   == Valute("EUR", NoElem, Num(1950), Num(1))
NoValue  == Valute("EUR", "Euro", Missing, Num(1))
BadValue == Valute("EUR", "Euro", Bad, Num(1))
NoNominal   == Valute("USD", "US Dollar", Num(195000), Missing)
BadNominal  == Valute("USD", "US Dollar", Num(195000), Bad)
ZeroNominal == Valute("USD", "US Dollar", Num(195000), Num(0))

ValuteSet == { EUR, USD, EUR2, USDZero, EURNeg, NoCode, NoName, NoValue,
               BadValue, NoNominal, BadNominal, ZeroNominal }

\* every body of at most MaxEntries entries, the unparsable and the empty body
AllDocs ==
    { Xml(vs) : vs \in UNION { [1..n -> ValuteSet] : n \in 0..MaxEntries } }
        \cup { Garbage, EmptyBody }

\* the answers drawn for a day by the assembly loop
Outcomes ==
    { Timeout, ConnFail,
      Response(404, Xml(<<EUR>>)),
      Response(200, EmptyBody),
      Response(200, Garbage),
      Response(200, Xml(<<EUR>>)),
      Response(200, Xml(<<EUR, USD>>)),
      Response(200, Xml(<<EUR, EUR2>>)),
      Response(200, Xml(<<EUR, NoNominal>>)),
      Response(200, Xml(<<USDZero>>)) }

FewOutcomes == { Timeout, Response(200, Xml(<<EUR>>)) }

\* the selections of the multiselect that the model tries
Selections == { {}, {"EUR"}, {"EUR", "USD"}, {"RON"} }

VARIABLES
    now,        \* the clock: [day, tod]
    source,     \* the remote source: date_str -> outcome, for the dates asked
    pc,         \* "idle", "loop" (inside get_historical_data), "returned"
    calls,      \* number of calls of get_historical_data so far
    days,       \* argument of the call
    end_date,   \* datetime.now() of the call
    i,          \* loop variable
    data,       \* the list of rows
    responses,  \* what get_exchange_rate was asked and returned, in order
    df,         \* the table returned
    prev,       \* the call before: [valid, days, end_date, df]
    pivot_df,   \* the pivoted table shown and exported
    selected_currencies,  \* the multiselect's value at the last rendering
    page,       \* "none", "table", "error", "warning", "exception"
    xml_in,     \* argument of a direct call of parse_xml
    rates_out   \* [called, rates]: its result

vars == << now, source, pc, calls, days, end_date, i, data, responses, df,
           prev, selected_currencies, pivot_df, page, xml_in, rates_out >>

callVars == << pc, calls, days, end_date, i, data, responses, df, prev >>
parseVars == << xml_in, rates_out >>

NoPrev == [valid |-> FALSE, days |-> 0, end_date |-> [day |-> 0, tod |-> 0],
           df |-> <<>>]

InitApp ==
    /\ now = [day |-> StartDay, tod |-> 0]
    /\ source = <<>>
    /\ pc = "idle"
    /\ calls = 0
    /\ days = 0
    /\ end_date = now
    /\ i = 0
    /\ data = <<>>
    /\ responses = <<>>
    /\ df = <<>>
    /\ prev = NoPrev
    /\ selected_currencies = {}
    /\ pivot_df = <<>>
    /\ page = "none"

Init ==
    /\ InitApp
    /\ xml_in = Garbage
    /\ rates_out = [called |-> FALSE, rates |-> <<>>]

(***************************************************************************)
(* get_historical_data.                                                    *)
(***************************************************************************)
\* variant: one pass too many
InRangeMutant(k, n) == k <= n

\* `for i in range(days)`: the loop goes on while i < days
InRange(k, n) == k < n

\* the rows one day appends: none without a document or with empty rates
Rows(date, xml_content) ==
    LET rates == IF Truthy(xml_content) THEN parse_xml(xml_content) ELSE <<>>
    IN  [k \in DOMAIN rates |->
            [Data |-> date, Cod |-> rates[k].code,
             Moneda |-> rates[k].name, Curs |-> rates[k].value]]

\* variant: a day without a document ends the loop
NextOffsetMutant(k, n, xml_content) ==
    IF Truthy(xml_content) \/ k >= n THEN k + 1 ELSE n

\* the loop variable after one pass: a day without data does not end the loop
NextOffset(k, n, xml_content) == k + 1

\* order of two datetimes
DateLeq(a, b) == a.day < b.day \/ (a.day = b.day /\ a.tod <= b.tod)

RECURSIVE InsertRow(_, _)
InsertRow(sorted, r) ==
    IF sorted = <<>> THEN <<r>>
    ELSE IF DateLeq(Head(sorted).Data, r.Data)
         THEN <<Head(sorted)>> \o InsertRow(Tail(sorted), r)
         ELSE <<r>> \o sorted

\* variant: the rows are returned as appended
sort_values_Mutant(rows) == rows

\* df.sort_values('Data'): ascending by the datetime; rows of one datetime
\* keep their order (numpy sorts arrays this short by insertion)
RECURSIVE sort_values(_)
sort_values(rows) ==
    IF rows = <<>> THEN <<>>
    ELSE InsertRow(sort_values(SubSeq(rows, 1, Len(rows) - 1)), rows[Len(rows)])

\* line 56: end_date = datetime.now(); the progress bar is not modelled
Enter(d) ==
    /\ pc = "idle"
    /\ prev' = IF calls > 0
               THEN [valid |-> TRUE, days |-> days, end_date |-> end_date,
                     df |-> df]
               ELSE prev
    /\ calls' = calls + 1
    /\ days' = d
    /\ end_date' = now
    /\ i' = 0
    /\ data' = <<>>
    /\ responses' = <<>>
    /\ df' = <<>>
    /\ pc' = "loop"
    /\ selected_currencies' = {}
    /\ pivot_df' = <<>>
    /\ page' = "none"
    /\ UNCHANGED << now, source, parseVars >>

\* the script's first run
Call == calls = 0 /\ \E d \in -1..MaxDays : Enter(d)

\* lines 63-79: one pass of the loop; the source answers the date as it did
\* before, or for the first time with any outcome of outs
Pass(outs) ==
    /\ pc = "loop"
    /\ InRange(i, days)
    /\ LET date     == MinusDays(end_date, i)
           date_str == strftime(date.day)
       IN  \E o \in outs :
             /\ date_str \in DOMAIN source => o = source[date_str]
             /\ LET xml_content == get_exchange_rate(o)
                IN  /\ data' = data \o Rows(date, xml_content)
                    /\ responses' = Append(responses,
                            [date_str |-> date_str, xml_content |-> xml_content])
                    /\ i' = NextOffset(i, days, xml_content)
             /\ source' = [s \in DOMAIN source \cup {date_str} |->
                             IF s = date_str THEN o ELSE source[s]]
    /\ UNCHANGED << now, pc, calls, days, end_date, df, prev,
                    selected_currencies, pivot_df, page, parseVars >>

Iterate == Pass(Outcomes)

\* lines 81-87
Return ==
    /\ pc = "loop"
    /\ ~InRange(i, days)
    /\ df' = IF data # <<>> THEN sort_values(data) ELSE <<>>
    /\ pc' = "returned"
    /\ UNCHANGED << now, source, calls, days, end_date, i, data, responses,
                    prev, selected_currencies, pivot_df, page, parseVars >>

(***************************************************************************)
(* The page below the call: lines 125-231.  Only the pivoted table and the *)
(* branch taken are modelled; the metrics and the charts are not.          *)
(***************************************************************************)
NaN == [num |-> 0, den |-> 0]

RECURSIVE SumFrac(_)
SumFrac(fs) ==
    IF fs = <<>> THEN [num |-> 0, den |-> 1]
    ELSE LET a == Head(fs)
             b == SumFrac(Tail(fs))
         IN  Div(a.num * b.den + b.num * a.den, a.den * b.den)

\* aggfunc of pivot_table: the mean of the cell's values
Mean(fs) == LET t == SumFrac(fs) IN Div(t.num, t.den * Len(fs))

ValuesOf(rows) == [k \in DOMAIN rows |-> rows[k].Curs]

\* the index of the pivot: the distinct datetimes, ascending
RECURSIVE Ascending(_)
Ascending(S) ==
    IF S = {} THEN <<>>
    ELSE LET m == CHOOSE x \in S : \A y \in S : DateLeq(x, y)
         IN  <<m>> \o Ascending(S \ {m})

\* df_filtered.pivot_table(index='Data', columns='Cod', values='Curs')
\*   .reset_index()
pivot_table(rows) ==
    LET index   == Ascending({ rows[k].Data : k \in DOMAIN rows })
        columns == { rows[k].Cod : k \in DOMAIN rows }
        Cell(d, c) ==
            LET hit(r) == r.Data = d /\ r.Cod = c
                found  == SelectSeq(rows, hit)
            IN  IF found = <<>> THEN NaN ELSE Mean(ValuesOf(found))
    IN  [k \in DOMAIN index |->
            [Data |-> index[k],
             cells |-> [c \in columns |-> Cell(index[k], c)]]]

\* pivot_df['Data'] = pivot_df['Data'].dt.strftime('%d.%m.%Y')
Formatted(table) ==
    [k \in DOMAIN table |->
        [Data |-> strftime(table[k].Data.day), cells |-> table[k].cells]]

RECURSIVE InsertDesc(_, _)
InsertDesc(sorted, r) ==
    IF sorted = <<>> THEN <<r>>
    ELSE IF ~StrLess(Head(sorted).Data, r.Data)
         THEN <<Head(sorted)>> \o InsertDesc(Tail(sorted), r)
         ELSE <<r>> \o sorted

\* pivot_df.sort_values('Data', ascending=False): Data holds strings by now
RECURSIVE sort_values_desc(_)
sort_values_desc(table) ==
    IF table = <<>> THEN <<>>
    ELSE InsertDesc(sort_values_desc(SubSeq(table, 1, Len(table) - 1)),
                    table[Len(table)])

\* df[df['Cod'].isin(selected_currencies)]
Filtered(table, selected) ==
    LET keep(r) == r.Cod \in selected IN SelectSeq(table, keep)

\* lines 125-231.  Pivoting a selection that matches no row is not decided
\* here: the page shows an empty table or the script stops with an exception
Render ==
    /\ pc = "returned"
    /\ \E selected \in Selections :
         /\ selected_currencies' = selected
         /\ IF df # <<>> /\ selected # {}
            THEN LET df_filtered == Filtered(df, selected)
                 IN  IF df_filtered # <<>>
                     THEN /\ pivot_df' = sort_values_desc(
                                           Formatted(pivot_table(df_filtered)))
                          /\ page' = "table"
                     ELSE /\ pivot_df' = <<>>
                          /\ page' \in {"table", "exception"}
            ELSE /\ pivot_df' = <<>>
                 /\ page' = IF df = <<>> THEN "error" ELSE "warning"
    /\ pc' = "idle"
    /\ UNCHANGED << now, source, calls, days, end_date, i, data, responses,
                    df, prev, parseVars >>

\* the clock moves on
Advance ==
    /\ \/ /\ now.tod < MaxTod
          /\ now' = [now EXCEPT !.tod = @ + 1]
       \/ /\ now.tod = MaxTod
          /\ now.day < StartDay + MaxClockDays
          /\ now' = [day |-> now.day + 1, tod |-> 0]
    /\ UNCHANGED << source, callVars, selected_currencies, pivot_df, page,
                    parseVars >>

\* time passes before the script runs; the clock is read at line 56 only
Tick == pc = "idle" /\ calls = 0 /\ Advance

Next == Tick \/ Call \/ Iterate \/ Return \/ Render

Spec == Init /\ [][Next]_vars

(***************************************************************************)
(* Reloading: the button of lines 117-119 clears the cache and reruns the  *)
(* script, so get_historical_data runs again at a later instant.           *)
(***************************************************************************)
MaxCalls == 2         \* runs of the script

Reload == calls < MaxCalls /\ \E d \in -1..MaxDays : Enter(d)

\* time passes before a run and between two runs
TickBetween == pc = "idle" /\ calls < MaxCalls /\ Advance

IterateFew == Pass(FewOutcomes)

NextTwice == TickBetween \/ Reload \/ IterateFew \/ Return \/ Render

SpecTwice == Init /\ [][NextTwice]_vars

(***************************************************************************)
(* parse_xml called on its own, on every document of AllDocs.              *)
(***************************************************************************)
InitParse ==
    /\ InitApp
    /\ xml_in \in AllDocs
    /\ rates_out = [called |-> FALSE, rates |-> <<>>]

ParseCall ==
    /\ ~rates_out.called
    /\ rates_out' = [called |-> TRUE, rates |-> parse_xml(xml_in)]
    /\ UNCHANGED << now, source, callVars, selected_currencies, pivot_df,
                    page, xml_in >>

NextParse == ParseCall

SpecParse == InitParse /\ [][NextParse]_vars

(***************************************************************************)
(* Vocabulary of the properties.                                           *)
(***************************************************************************)
\* a call has returned its table
Returned == calls > 0 /\ pc # "loop"

\* the calendar days today-0 .. today-(days-1) of the call
Window == { end_date.day - k : k \in 0..(days - 1) }

\* an entry with its four fields present and readable, nominal not zero
WellFormed(e) ==
    /\ e.CharCode # NoElem
    /\ e.Name # NoElem
    /\ e.Value.t = "num"
    /\ e.Nominal.t = "num"
    /\ e.Nominal.n # 0

ValidDoc(x) ==
    x.kind = "xml" /\ \A j \in DOMAIN x.valutes : WellFormed(x.valutes[j])

BrokenDoc(x) ==
    x.kind # "xml" \/ \E j \in DOMAIN x.valutes : ~WellFormed(x.valutes[j])

\* the entries before the first one that is not well-formed
Leading(x) ==
    { j \in DOMAIN x.valutes : \A h \in 1..j : WellFormed(x.valutes[h]) }

\* rate = value / nominal, stated without dividing
IsQuotient(rate, value, nominal) ==
    rate.den > 0 /\ rate.num * nominal = value * rate.den

RowsOf(table, date) ==
    { k \in DOMAIN table : table[k].Data = date }

(***************************************************************************)
(* Properties.                                                             *)
(***************************************************************************)

\* C1: for positive days, the returned table holds only rows dated within the
\* days calendar dates today-0 .. today-(days-1), in ascending order of date.
C1_WindowAscending ==
    (Returned /\ days > 0) =>
        /\ \A k \in DOMAIN df : df[k].Data.day \in Window
        /\ \A k \in 1..(Len(df) - 1) : DateLeq(df[k].Data, df[k + 1].Data)

\* rows of three different days were appended newest first and returned
C1_Witness ==
    /\ Returned
    /\ days = 3
    /\ Cardinality({ df[k].Data.day : k \in DOMAIN df }) = 3
    /\ data # df

\* C2: a day without a document, or whose parse result is empty, adds no row
\* and does not end the loop: every offset of [0, days) is fetched, and every
\* other day adds one row per parsed currency code.
C2_SkipAndContinue ==
    (Returned /\ days > 0) =>
        /\ Len(responses) = days
        /\ \A k \in 1..days :
             LET x    == responses[k].xml_content
                 date == MinusDays(end_date, k - 1)
             IN  /\ responses[k].date_str = strftime(date.day)
                 /\ Cardinality(RowsOf(df, date)) =
                      IF Truthy(x) THEN Cardinality(Codes(parse_xml(x))) ELSE 0
                 /\ { df[r].Cod : r \in RowsOf(df, date) } =
                      IF Truthy(x) THEN Codes(parse_xml(x)) ELSE {}

\* days = 3, offset 1 fails, offsets 0 and 2 give one currency each: 2 rows
C2_Witness ==
    /\ Returned
    /\ days = 3
    /\ Len(responses) = 3
    /\ responses[2].xml_content = None
    /\ Cardinality(RowsOf(df, MinusDays(end_date, 0))) = 1
    /\ Cardinality(RowsOf(df, MinusDays(end_date, 2))) = 1
    /\ Len(df) = 2

C6_BodyIffStatus200 ==
    \A k \in DOMAIN responses :
        LET o == source[responses[k].date_str]
            x == responses[k].xml_content
        IN  \/ o.kind = "response" /\ o.status = 200 /\ x = o.content
            \/ ~(o.kind = "response" /\ o.status = 200) /\ x = None

\* one call met a timeout, a 404 that carries a body, and a 200
C6_Witness ==
    /\ Len(responses) = 3
    /\ source[responses[1].date_str] = Timeout
    /\ source[responses[2].date_str] = Response(404, Xml(<<EUR>>))
    /\ responses[2].xml_content = None
    /\ source[responses[3].date_str] = Response(200, Xml(<<EUR, USD>>))
    /\ responses[3].xml_content = Xml(<<EUR, USD>>)

\* C9 as stated: every row of the assembled table has a strictly positive
\* rate, whatever the source returned.
C9_RatesPositive ==
    \A k \in DOMAIN df : df[k].Curs.num > 0 /\ df[k].Curs.den > 0

\* C9 as amended: there is no positivity filter.  Every well-formed entry read
\* before the first bad one yields a row for its code, whatever the sign of its
\* value, and every row's rate is value / nominal of such an entry.
C9_NoPositivityFilter ==
    \A k \in DOMAIN responses :
        LET x    == responses[k].xml_content
            date == MinusDays(end_date, k - 1)
        IN  /\ \A j \in Leading(x) :
                 \E r \in RowsOf(data, date) :
                     data[r].Cod = x.valutes[j].CharCode
            /\ \A r \in RowsOf(data, date) :
                 \E j \in Leading(x) :
                     /\ data[r].Cod = x.valutes[j].CharCode
                     /\ IsQuotient(data[r].Curs, x.valutes[j].Value.n,
                                   x.valutes[j].Nominal.n)

\* the returned table has a row whose rate is zero
C9_Witness ==
    /\ Returned
    /\ \E k \in DOMAIN df : df[k].Cod = "USD" /\ df[k].Curs.num = 0

C4_EmptyOnBrokenDoc ==
    (rates_out.called /\ BrokenDoc(xml_in)) => rates_out.rates = <<>>

\* C5: for a valid document every stored rate is value / nominal of the entry
\* kept for that code, with nominal 1 it is the raw value itself, and EUR 19.50
\* per 1 and USD 1950.0 per 100 both come out as 19.50 (1950 hundredths).
C5_RateIsValueOverNominal ==
    (rates_out.called /\ ValidDoc(xml_in)) =>
        /\ \A k \in DOMAIN rates_out.rates :
             LET info == rates_out.rates[k]
             IN  \E j \in DOMAIN xml_in.valutes :
                   LET e == xml_in.valutes[j]
                   IN  /\ e.CharCode = info.code
                       /\ e.Nominal.n = info.nominal
                       /\ IsQuotient(info.value, e.Value.n, e.Nominal.n)
                       /\ e.Nominal.n = 1 =>
                            info.value = [num |-> e.Value.n, den |-> 1]
        /\ Codes(rates_out.rates) =
             { xml_in.valutes[j].CharCode : j \in DOMAIN xml_in.valutes }
        /\ xml_in = Xml(<<EUR, USD>>) =>
             /\ rates_out.rates[1].value = [num |-> 1950, den |-> 1]
             /\ rates_out.rates[2].value = [num |-> 1950, den |-> 1]

\* the document of the scenario has been parsed into two entries
C5_Witness ==
    /\ rates_out.called
    /\ xml_in = Xml(<<EUR, USD>>)
    /\ Len(rates_out.rates) = 2

\* the dates of the rows that pass the filter, latest first
RECURSIVE Descending(_)
Descending(S) ==
    IF S = {} THEN <<>>
    ELSE LET m == CHOOSE x \in S : \A y \in S : y <= x
         IN  <<m>> \o Descending(S \ {m})

\* C7 as stated: the pivoted table has one row per date of the filtered data,
\* one column per currency code of it, and its rows run from the latest date
\* to the earliest, month and year boundaries included.
C7_PivotLatestFirst ==
    (page = "table" /\ pc = "idle") =>
        LET df_filtered == Filtered(df, selected_currencies)
            dates == Descending({ df_filtered[k].Data.day :
                                    k \in DOMAIN df_filtered })
        IN  /\ Len(pivot_df) = Len(dates)
            /\ \A k \in DOMAIN pivot_df :
                 /\ pivot_df[k].Data = strftime(dates[k])
                 /\ DOMAIN pivot_df[k].cells =
                      { df_filtered[r].Cod : r \in DOMAIN df_filtered }

\* C8 as stated: with a source that answers each date the same way every time,
\* two calls with the same days on the same calendar day return the same table.
C8_SameDaySameTable ==
    (Returned /\ prev.valid /\ prev.days = days
        /\ prev.end_date.day = end_date.day) => prev.df = df

====
